---- MODULE Spec2Model ----
(***************************************************************************)
(* A model of zope_test_janitor.py: Failure.analyze (the per-record        *)
(* fetch / scrape / correlate / tag pipeline) and Report.truncate_pre (the *)
(* collapsible-text algorithm).                                            *)
(*                                                                         *)
(* Representation.  A Python str is a sequence of tokens (each token a     *)
(* run of characters that the code never looks inside, such as "/", "#",   *)
(* "5", "builders").  An optional value is a sequence of length 0 (None)   *)
(* or 1 (the value).  A fetched page is the record of the element lists    *)
(* that the code's xpath / cssselect queries return on it.                 *)
(***************************************************************************)
EXTENDS Integers, Sequences, FiniteSets, TLC

VARIABLES
    pc,                     \* position inside Failure.analyze
    exception,              \* the exception that left analyze, or NoExc
    warnings,               \* number of log.warning calls of analyze
    analyze_text_calls,     \* number of calls of Failure.analyze_text
    pre,                    \* Failure.pre
    first_link,             \* local first_link of Failure.analyze
    build_number,           \* Failure.build_number
    build_link,             \* Failure.build_link
    build_source,           \* Failure.build_source
    console_text,           \* Failure.console_text
    buildbot_steps,         \* Failure.buildbot_steps
    last_build_link,        \* Failure.last_build_link
    last_build_number,      \* Failure.last_build_number
    last_build_source,      \* Failure.last_build_source
    last_console_text,      \* Failure.last_console_text
    last_build_steps,       \* Failure.last_build_steps
    last_build_successful,  \* Failure.last_build_successful
    tag,                    \* Failure.tag
    fetched,                \* the cached_get calls of analyze: [url, max_age]
    header_class,           \* class of the <h2> that failure_header emits
    tp_call,                \* arguments of the Report.truncate_pre call under study
    tp_result,              \* its return value
    email_lines,            \* the lines of the summary email given to main
    date,                   \* Report.date
    failures,               \* Report.failures, each with the state of its analysis
    main_pc,                \* position inside main
    index,                  \* records that the loop of fetch_emails has taken
    report_file,            \* what Report.write wrote, None before
    cache,                  \* the files of CACHE_DIR, by file name
    now,                    \* time.time()
    advances,               \* number of times the clock was advanced
    cg_prev,                \* the cached_get call before the last: its outcome
    cg_last,                \* the last cached_get call and its outcome
    lk,                     \* the chain of link derivations under study
    bs_steps,               \* the steps of the buildbot_source call under study
    bs_result               \* what that call returned

failure_vars == <<pre, first_link, build_number, build_link, build_source,
                  console_text, buildbot_steps, last_build_link,
                  last_build_number, last_build_source, last_console_text,
                  last_build_steps, last_build_successful, tag>>

analyze_vars == <<pc, exception, warnings, analyze_text_calls, failure_vars,
                  fetched, header_class>>

truncate_vars == <<tp_call, tp_result>>

report_vars == <<email_lines, date, failures, main_pc, index, report_file>>

cache_vars == <<cache, now, advances, cg_prev, cg_last>>

link_vars == <<lk>>

source_vars == <<bs_steps, bs_result>>

\* What belongs to the other operations under study
other_vars ==
    <<truncate_vars, report_vars, cache_vars, link_vars, source_vars>>

vars == <<analyze_vars, other_vars>>

----------------------------------------------------------------------------
(* Bounds of the model. *)

\* div.result elements on one build page
MaxSteps == 2

----------------------------------------------------------------------------
(* Python values. *)

None == <<>>

Some(v) == <<v>>

IsNone(x) == x = <<>>

Val(x) == x[1]

\* bool(x) of an optional str or an optional list: None and the empty
\* str / list are falsy.
Truthy(x) == ~IsNone(x) /\ Val(x) # <<>>

\* bool(x) of the values last_build_successful takes: None, the empty list
\* (printed "[]"), True, False.
TruthyResult(x) == x = "True"

\* No exception, and an exception of class `type` raised by the statement at
\* line `at` of zope_test_janitor.py; nodata tells that the statement was
\* handling a fetch that failed or delivered b''.
NoExc == [type |-> "none", at |-> 0, nodata |-> FALSE]

Exc(type, at, nodata) == [type |-> type, at |-> at, nodata |-> nodata]

----------------------------------------------------------------------------
(* str methods, on token sequences. *)

RECURSIVE LastIndex(_, _)
LastIndex(s, sep) ==
    IF s = <<>> THEN 0
    ELSE IF s[Len(s)] = sep THEN Len(s)
    ELSE LastIndex(SubSeq(s, 1, Len(s) - 1), sep)

RECURSIVE FirstIndexFrom(_, _, _)
FirstIndexFrom(s, sep, i) ==
    IF i > Len(s) THEN 0
    ELSE IF s[i] = sep THEN i
    ELSE FirstIndexFrom(s, sep, i + 1)

\* s.rpartition(sep): <<head, sep, tail>>, or <<'', '', s>> without sep
rpartition(s, sep) ==
    LET i == LastIndex(s, sep)
    IN  IF i = 0 THEN << <<>>, <<>>, s >>
        ELSE << SubSeq(s, 1, i - 1), <<sep>>, SubSeq(s, i + 1, Len(s)) >>

\* s.partition(sep): <<head, sep, tail>>, or <<s, '', ''>> without sep
partition(s, sep) ==
    LET i == FirstIndexFrom(s, sep, 1)
    IN  IF i = 0 THEN << s, <<>>, <<>> >>
        ELSE << SubSeq(s, 1, i - 1), <<sep>>, SubSeq(s, i + 1, Len(s)) >>

endswith(s, suffix) ==
    /\ Len(suffix) <= Len(s)
    /\ SubSeq(s, Len(s) - Len(suffix) + 1, Len(s)) = suffix

startswith(s, prefix) ==
    /\ Len(prefix) <= Len(s)
    /\ SubSeq(s, 1, Len(prefix)) = prefix

DigitTokens == {"3", "5", "7"}

WhitespaceTokens == {" ", "\n"}

DigitValue(t) == CASE t = "3" -> 3 [] t = "5" -> 5 [] t = "7" -> 7

\* s.isdigit(): non-empty and digits only
isdigit(s) == s # <<>> /\ \A i \in DOMAIN s : s[i] \in DigitTokens

RECURSIVE lstrip(_)
lstrip(s) ==
    IF s # <<>> /\ s[1] \in WhitespaceTokens THEN lstrip(Tail(s)) ELSE s

RECURSIVE rstrip(_)
rstrip(s) ==
    IF s # <<>> /\ s[Len(s)] \in WhitespaceTokens
    THEN rstrip(SubSeq(s, 1, Len(s) - 1)) ELSE s

strip(s) == lstrip(rstrip(s))

RECURSIVE DecimalValue(_)
DecimalValue(s) ==
    IF s = <<>> THEN 0
    ELSE 10 * DecimalValue(SubSeq(s, 1, Len(s) - 1)) + DigitValue(s[Len(s)])

\* int(x) of an optional str, at line `at`: [exc, value].  int(None) is a
\* TypeError, a str that is no decimal number (after stripping whitespace) a
\* ValueError.
int(x, at) ==
    IF IsNone(x) THEN [exc |-> Exc("TypeError", at, FALSE), value |-> 0]
    ELSE LET s == strip(Val(x))
         IN  IF isdigit(s) THEN [exc |-> NoExc, value |-> DecimalValue(s)]
             ELSE IF s = <<"-1">> THEN [exc |-> NoExc, value |-> -1]
             ELSE [exc |-> Exc("ValueError", at, FALSE), value |-> 0]

----------------------------------------------------------------------------
(* The URL patterns. *)

IsNumberToken(t) == t \in DigitTokens \/ t = "-1"

\* s[i..j] is a non-empty run without "/": what [^/]+ matches
NoSlashRun(s, i, j) == i <= j /\ \A k \in i..j : s[k] # "/"

\* BUILDER_URL.match(url): .*/builders/[^/]+/builds/-?\d+$
BUILDER_URL(url) ==
    LET n == Len(url)
    IN  /\ n >= 8
        /\ IsNumberToken(url[n])
        /\ SubSeq(url, n - 3, n - 1) = <<"/", "builds", "/">>
        /\ \E i \in 1..(n - 6) :
              /\ SubSeq(url, i, i + 2) = <<"/", "builders", "/">>
              /\ NoSlashRun(url, i + 3, n - 4)

\* JENKINS_URL.match(url): .*/job/[^/]+/\d+/$
JENKINS_URL(url) ==
    LET n == Len(url)
    IN  /\ n >= 7
        /\ url[n] = "/"
        /\ url[n - 1] \in DigitTokens
        /\ url[n - 2] = "/"
        /\ \E i \in 1..(n - 5) :
              /\ SubSeq(url, i, i + 2) = <<"/", "job", "/">>
              /\ NoSlashRun(url, i + 3, n - 3)

----------------------------------------------------------------------------
(* Fetching.  What urlopen does for one URL is an input of the model: it   *)
(* delivers a body, fails with an HTTP error, or fails with another        *)
(* network error (URLError, socket.timeout).  A body is None for b'' and   *)
(* Some(page) otherwise.                                                   *)

\* The staleness budgets of the cache, in seconds
ONE_HOUR == 3600

ONE_DAY == 24 * ONE_HOUR

\* get(url): only HTTPError is caught.  Kind "HTTPError" is every exception
\* of urlopen that the except clause catches (an HTTP error and, where the
\* import fell back to HTTPError = IOError, every IOError); kind "URLError"
\* is a network error that is no HTTPError, which propagates.
get(o) ==
    CASE o.kind = "ok"        -> [exc |-> NoExc, body |-> o.body]
      [] o.kind = "HTTPError" -> [exc |-> NoExc, body |-> None]
      [] o.kind = "URLError"  -> [exc |-> Exc("URLError", 114, TRUE), body |-> None]

\* cached_get(url, max_age): o.kind = "cached" stands for get_from_cache
\* returning the bytes of a fresh cache file; otherwise the body is
\* downloaded with get.
cached_get(o) ==
    IF o.kind = "cached" THEN [exc |-> NoExc, body |-> o.body]
    ELSE get(o)

\* lxml.html.Element('html'): every query on it returns the empty list
EmptyTree ==
    [titles |-> <<>>, pres |-> <<>>, links |-> <<>>, results |-> <<>>,
     spans |-> <<>>, headers |-> <<>>]

\* parse(url, max_age): [exc, etree, empty], empty telling that the tree is
\* the bare <html> element made for an empty body
parse(o) ==
    LET r == cached_get(o)
    IN  IF r.exc # NoExc THEN [exc |-> r.exc, etree |-> EmptyTree, empty |-> TRUE]
        ELSE IF IsNone(r.body)
        THEN [exc |-> NoExc, etree |-> EmptyTree, empty |-> TRUE]
        ELSE [exc |-> NoExc, etree |-> Val(r.body), empty |-> FALSE]

\* html.escape on tokens
escape_token(t) ==
    CASE t = "<" -> "&lt;" [] t = ">" -> "&gt;" [] t = "&" -> "&amp;"
      [] OTHER -> t

escape(s) == [i \in DOMAIN s |-> escape_token(s[i])]

\* tostring(etree) of a span element
tostring_span(span) ==
    << "<span class=\"" , span.class, "\">" >> \o span.text \o << "</span>" >>

RECURSIVE join(_)
join(list) == IF list = <<>> THEN <<>> ELSE Head(list) \o join(Tail(list))

----------------------------------------------------------------------------
(* Failure: the pure methods. *)

\* Failure.parse_email(url): [exc, pre, first_link]
parse_email(o) ==
    LET p == parse(o)
        etree == p.etree
    IN  IF p.exc # NoExc THEN [exc |-> p.exc, pre |-> None, first_link |-> None]
        ELSE IF etree.pres = <<>>
        THEN [exc |-> Exc("IndexError", 221, p.empty), pre |-> None,
              first_link |-> None]
        ELSE [exc |-> NoExc, pre |-> Some(etree.pres[1]),
              first_link |-> IF etree.links # <<>> THEN etree.links[1] ELSE None]

\* Failure.is_buildbot_link(url), url an optional str
is_buildbot_link(url) == Truthy(url) /\ BUILDER_URL(Val(url))

\* Mutant of is_jenkins_link: any non-empty link counts
is_jenkins_link_any(url) == Truthy(url)

\* Failure.is_jenkins_link(url)
is_jenkins_link(url) == Truthy(url) /\ JENKINS_URL(Val(url))

\* Failure.parse_buildbot_link(url, latest): <<link, build number>>
parse_buildbot_link(url, latest) ==
    IF latest THEN << rpartition(url, "/")[1] \o <<"/", "-1">>, <<"latest">> >>
    ELSE << url, rpartition(url, "/")[3] >>

\* Failure.parse_buildbot_link(url, latest) with its assertion: [exc, link]
parse_buildbot_link_checked(url, latest) ==
    IF ~is_buildbot_link(Some(url))
    THEN [exc |-> Exc("AssertionError", 233, FALSE), link |-> url]
    ELSE [exc |-> NoExc, link |-> parse_buildbot_link(url, latest)[1]]

\* Mutant of normalize_buildbot_url: the number is appended to the URL
normalize_buildbot_url_append(url, number) ==
    IF ~endswith(url, <<"/", "-1">>)
    THEN [exc |-> Exc("AssertionError", 240, FALSE), url |-> url]
    ELSE IF ~isdigit(number)
    THEN [exc |-> Exc("AssertionError", 241, FALSE), url |-> url]
    ELSE [exc |-> NoExc, url |-> url \o <<"/">> \o number]

\* Failure.normalize_buildbot_url(url, build_number): [exc, url]
normalize_buildbot_url(url, number) ==
    IF ~endswith(url, <<"/", "-1">>)
    THEN [exc |-> Exc("AssertionError", 240, FALSE), url |-> url]
    ELSE IF ~isdigit(number)
    THEN [exc |-> Exc("AssertionError", 241, FALSE), url |-> url]
    ELSE [exc |-> NoExc, url |-> rpartition(url, "/")[1] \o <<"/">> \o number]

\* urljoin(base, rel) for a relative rel: rel replaces the last path segment
urljoin(base, rel) == rpartition(base, "/")[1] \o <<"/">> \o rel

\* Failure.prepare_step_text(step_etree)
prepare_step_text(step_etree) ==
    LET step_meta == step_etree.headers
        first_line(text) == rstrip(partition(text, "\n")[1])
        header(text) ==
            <<"<span class=\"header\">">> \o escape(first_line(text))
                \o <<"</span>", "\n">>
        command_line == IF Len(step_meta) >= 1 THEN header(step_meta[1]) ELSE <<>>
        exit_status ==
            IF Len(step_meta) >= 2 THEN header(step_meta[Len(step_meta)]) ELSE <<>>
        spans == [i \in DOMAIN step_etree.spans |-> tostring_span(step_etree.spans[i])]
    IN  <<"<pre>">> \o command_line \o join(spans) \o exit_status \o <<"</pre>">>

\* Mutant of parse_buildbot_steps: the rewrite keeps only what follows the
\* last '/' of the relative link
RECURSIVE parse_buildbot_steps_rpartition(_, _, _, _, _, _)
parse_buildbot_steps_rpartition(divs, logs, i, url, number, normalize_url) ==
    IF i > Len(divs) THEN [exc |-> NoExc, steps |-> <<>>, links |-> <<>>]
    ELSE
      LET step == divs[i]
      IN  IF normalize_url /\ ~startswith(step.href, <<"-1", "/">>)
          THEN [exc |-> Exc("AssertionError", 259, FALSE), steps |-> <<>>,
                links |-> <<>>]
          ELSE
            LET step_link_rel ==
                    IF normalize_url
                    THEN number \o <<"/">> \o rpartition(step.href, "/")[3]
                    ELSE step.href
                step_link == urljoin(url, step_link_rel) \o <<"/logs/stdio">>
                p == parse(logs[i])
            IN  IF p.exc # NoExc
                THEN [exc |-> p.exc, steps |-> <<>>, links |-> <<step_link>>]
                ELSE
                  LET rest == parse_buildbot_steps_rpartition(divs, logs, i + 1,
                                  url, number, normalize_url)
                      this == [title |-> step.title, link |-> step_link,
                               css_class |-> step.class,
                               text |-> prepare_step_text(p.etree)]
                  IN  [exc |-> rest.exc,
                       steps |-> IF rest.exc # NoExc THEN <<>>
                                 ELSE <<this>> \o rest.steps,
                       links |-> <<step_link>> \o rest.links]

\* The loop of Failure.parse_buildbot over etree.cssselect('div.result'),
\* from the i-th element on: [exc, steps, links], links the log URLs that
\* were handed to parse
RECURSIVE parse_buildbot_steps(_, _, _, _, _, _)
parse_buildbot_steps(divs, logs, i, url, number, normalize_url) ==
    IF i > Len(divs) THEN [exc |-> NoExc, steps |-> <<>>, links |-> <<>>]
    ELSE
      LET step == divs[i]
          css_class == step.class
          step_title == step.title
      IN  IF normalize_url /\ ~startswith(step.href, <<"-1", "/">>)
          THEN [exc |-> Exc("AssertionError", 259, FALSE), steps |-> <<>>,
                links |-> <<>>]
          ELSE
            LET step_link_rel ==
                    IF normalize_url
                    THEN number \o <<"/">> \o partition(step.href, "/")[3]
                    ELSE step.href
                step_link == urljoin(url, step_link_rel) \o <<"/logs/stdio">>
                p == parse(logs[i])
            IN  IF p.exc # NoExc
                THEN [exc |-> p.exc, steps |-> <<>>, links |-> <<step_link>>]
                ELSE
                  LET rest == parse_buildbot_steps(divs, logs, i + 1, url,
                                                   number, normalize_url)
                      this == [title |-> step_title, link |-> step_link,
                               css_class |-> css_class,
                               text |-> prepare_step_text(p.etree)]
                  IN  [exc |-> rest.exc,
                       steps |-> IF rest.exc # NoExc THEN <<>>
                                 ELSE <<this>> \o rest.steps,
                       links |-> <<step_link>> \o rest.links]

\* The cached_get calls of one parse_buildbot call: the build page with
\* max_age, then the step logs with the default of parse
parse_buildbot_fetched(url, max_age, links) ==
    <<[url |-> url, max_age |-> max_age]>>
        \o [i \in DOMAIN links |-> [url |-> links[i], max_age |-> ONE_DAY]]

\* Mutant of parse_buildbot: skip_if is ignored
parse_buildbot_no_skip(url, skip_if, normalize_url, max_age, o, logs) ==
    LET p == parse(o)
        etree == p.etree
        failed(e, links) ==
            [exc |-> e, steps |-> <<>>, build_number |-> <<>>,
             fetched |-> parse_buildbot_fetched(url, max_age, links)]
    IN  IF p.exc # NoExc THEN failed(p.exc, <<>>)
        ELSE IF etree.titles = <<>>
        THEN failed(Exc("IndexError", 247, p.empty), <<>>)
        ELSE
          LET number == rpartition(etree.titles[1], "#")[3]
              n == IF normalize_url THEN normalize_buildbot_url(url, number)
                   ELSE [exc |-> NoExc, url |-> url]
          IN  IF n.exc # NoExc THEN failed(n.exc, <<>>)
              ELSE
                LET r == parse_buildbot_steps(etree.results, logs, 1, n.url,
                                              number, normalize_url)
                IN  IF r.exc # NoExc THEN failed(r.exc, r.links)
                    ELSE [exc |-> NoExc, steps |-> r.steps,
                          build_number |-> number,
                          fetched |-> parse_buildbot_fetched(url, max_age,
                                                             r.links)]

\* Failure.parse_buildbot(url, skip_if, normalize_url, max_age):
\* [exc, steps, build_number, fetched].  o is the fetch of the build page,
\* logs[i] the fetch of the i-th step's log.
parse_buildbot(url, skip_if, normalize_url, max_age, o, logs) ==
    LET p == parse(o)
        etree == p.etree
        failed(e, links) ==
            [exc |-> e, steps |-> <<>>, build_number |-> <<>>,
             fetched |-> parse_buildbot_fetched(url, max_age, links)]
    IN  IF p.exc # NoExc THEN failed(p.exc, <<>>)
        ELSE IF etree.titles = <<>>
        THEN failed(Exc("IndexError", 247, p.empty), <<>>)
        ELSE
          LET title == etree.titles[1]
              number == rpartition(title, "#")[3]
          IN  IF ~IsNone(skip_if) /\ number = Val(skip_if)
              THEN [exc |-> NoExc, steps |-> <<>>, build_number |-> number,
                    fetched |-> parse_buildbot_fetched(url, max_age, <<>>)]
              ELSE
                LET n == IF normalize_url THEN normalize_buildbot_url(url, number)
                         ELSE [exc |-> NoExc, url |-> url]
                IN  IF n.exc # NoExc THEN failed(n.exc, <<>>)
                    ELSE
                      LET r == parse_buildbot_steps(etree.results, logs, 1, n.url,
                                                    number, normalize_url)
                      IN  IF r.exc # NoExc THEN failed(r.exc, r.links)
                          ELSE [exc |-> NoExc, steps |-> r.steps,
                                build_number |-> number,
                                fetched |-> parse_buildbot_fetched(url, max_age,
                                                                   r.links)]

\* Mutant of buildbot_success: `all(...)` without `steps and`
buildbot_success_all(steps) ==
    IF \A i \in DOMAIN steps : steps[i].css_class = "success result"
    THEN "True" ELSE "False"

\* Failure.buildbot_success(steps): `steps and all(...)` is the empty list
\* itself for an empty list, else the bool of all(...)
buildbot_success(steps) ==
    IF steps = <<>> THEN "[]"
    ELSE IF \A i \in DOMAIN steps : steps[i].css_class = "success result"
    THEN "True" ELSE "False"

\* The first index at which re.search finds `head` followed by a token of
\* `group`, from i on (0: no match)
RECURSIVE SearchFrom(_, _, _, _)
SearchFrom(text, head, group, i) ==
    IF i + 1 > Len(text) THEN 0
    ELSE IF text[i] = head /\ text[i + 1] \in group THEN i + 1
    ELSE SearchFrom(text, head, group, i + 1)

RepoTokens == {"zopefoundation/ZODB", "zopefoundation/ZODB.git"}

CommitTokens == {"6b484f8", "0a1b2c3"}

\* `if github_repo.endswith('.git'): github_repo = github_repo[:-len('.git')]`
strip_dot_git(repo) ==
    IF repo = "zopefoundation/ZODB.git" THEN "zopefoundation/ZODB" ELSE repo

\* The loop of Failure.buildbot_source over the steps, from the i-th on,
\* carrying the optional github_repo and commit found so far
RECURSIVE buildbot_source_loop(_, _, _, _)
buildbot_source_loop(steps, i, github_repo, commit) ==
    IF i > Len(steps) THEN [github_repo |-> github_repo, commit |-> commit]
    ELSE IF steps[i].title # "git"
    THEN buildbot_source_loop(steps, i + 1, github_repo, commit)
    ELSE
      LET text == steps[i].text
          m1 == SearchFrom(text, "From git://github.com/", RepoTokens, 1)
          m2 == SearchFrom(text, "HEAD is now at ", CommitTokens, 1)
      IN  buildbot_source_loop(steps, i + 1,
              IF m1 # 0 THEN Some(strip_dot_git(text[m1])) ELSE github_repo,
              IF m2 # 0 THEN Some(text[m2]) ELSE commit)

\* Failure.buildbot_source(steps): an optional GitHubSource
buildbot_source(steps) ==
    LET r == buildbot_source_loop(steps, 1, None, None)
    IN  IF ~IsNone(r.github_repo) /\ ~IsNone(r.commit)
        THEN Some([repo |-> Val(r.github_repo), commit |-> Val(r.commit)])
        ELSE None

\* Failure.parse_jenkins_link(url, latest): <<link, build number>>
parse_jenkins_link(url, latest) ==
    IF latest
    THEN << rpartition(rpartition(url, "/")[1], "/")[1] \o <<"/", "lastBuild", "/">>,
            <<"latest">> >>
    ELSE << url, rpartition(rpartition(url, "/")[1], "/")[3] >>

\* Failure.normalize_jenkins_url(url, build_number): [exc, url]
normalize_jenkins_url(url, number) ==
    IF ~endswith(url, <<"/", "lastBuild", "/">>)
    THEN [exc |-> Exc("AssertionError", 319, FALSE), url |-> url]
    ELSE IF ~isdigit(number)
    THEN [exc |-> Exc("AssertionError", 320, FALSE), url |-> url]
    ELSE [exc |-> NoExc,
          url |-> rpartition(rpartition(url, "/")[1], "/")[1]
                      \o <<"/">> \o number \o <<"/">>]

\* Failure.parse_jenkins_build_number(url, max_age): [exc, build_number],
\* build_number an optional str
parse_jenkins_build_number(o) ==
    LET p == parse(o)
    IN  IF p.exc # NoExc THEN [exc |-> p.exc, build_number |-> None]
        ELSE IF p.etree.titles = <<>> THEN [exc |-> NoExc, build_number |-> None]
        ELSE [exc |-> NoExc,
              build_number |->
                  Some(partition(rpartition(p.etree.titles[1], "#")[3], " ")[1])]

\* Failure.parse_jenkins(url, max_age): [exc, text]; the body of the
\* consoleText URL is the text itself, b'' decodes to ''
parse_jenkins(o) ==
    LET r == cached_get(o)
    IN  IF r.exc # NoExc THEN [exc |-> r.exc, text |-> <<>>]
        ELSE IF IsNone(r.body) THEN [exc |-> NoExc, text |-> <<>>]
        ELSE [exc |-> NoExc, text |-> Val(r.body)]

\* Failure.jenkins_success(console_text)
jenkins_success(text) ==
    IF endswith(rstrip(text), <<"Finished: SUCCESS">>) THEN "True" ELSE "False"

----------------------------------------------------------------------------
(* The known-failure tagger. *)

\* KNOWN_FAILURES, in table order.  A sign is a literal (tested with `in`)
\* or a compiled pattern (tested with .search).
KNOWN_FAILURES == <<
    [regexp |-> FALSE, sign |-> "Error: Couldn't open development-python.cfg",
     tag |-> "bad jenkins config"],
    [regexp |-> FALSE, sign |-> "ERROR: 'xslt-config' is not recognized",
     tag |-> "no lxml on winbot"],
    [regexp |-> FALSE, sign |-> "A    MOVED_TO_GITHUB",
     tag |-> "moved to Github"],
    [regexp |-> FALSE, sign |-> "IOError: [Errno 2] No such file: cli.exe",
     tag |-> "distribute issue #376"],
    [regexp |-> FALSE, sign |-> "IOError: [Errno 0] Error: cli.exe",
     tag |-> "distribute issue #376"],
    [regexp |-> TRUE, sign |-> "pkg_resources\\.VersionConflict: \\(setuptools .*",
     tag |-> "setuptools issue #5"],
    [regexp |-> TRUE, sign |-> "Error: There is a version conflict.\\s+We already have: webtest \\d",
     tag |-> "webtest version conflict"],
    [regexp |-> FALSE, sign |-> "fatal: unable to connect to github.com:",
     tag |-> "github unreachable"] >>

\* The tokens a compiled pattern of KNOWN_FAILURES matches
PatternLanguage(sign) ==
    CASE sign = "pkg_resources\\.VersionConflict: \\(setuptools .*" ->
            {"pkg_resources.VersionConflict: (setuptools 0.6c11, Requirement.parse('setuptools&gt;=0.7b'))"}
      [] sign = "Error: There is a version conflict.\\s+We already have: webtest \\d" ->
            {"Error: There is a version conflict. We already have: webtest 1"}
      [] OTHER -> {}

\* sign.search(text)
search(sign, text) == \E i \in DOMAIN text : text[i] \in PatternLanguage(sign)

\* sign in text
contains(sign, text) == \E i \in DOMAIN text : text[i] = sign

\* The loop of Failure.analyze_text over KNOWN_FAILURES from entry k on:
\* the tag afterwards
RECURSIVE analyze_text_loop(_, _, _)
analyze_text_loop(t, text, k) ==
    IF k > Len(KNOWN_FAILURES) THEN t
    ELSE
      LET e == KNOWN_FAILURES[k]
          matched == IF e.regexp THEN search(e.sign, text)
                     ELSE contains(e.sign, text)
      IN  analyze_text_loop(IF matched THEN Some(e.tag) ELSE t, text, k + 1)

\* Mutant of analyze_text: the first matching entry wins
RECURSIVE analyze_text_first_loop(_, _, _)
analyze_text_first_loop(t, text, k) ==
    IF k > Len(KNOWN_FAILURES) THEN t
    ELSE
      LET e == KNOWN_FAILURES[k]
          matched == IF e.regexp THEN search(e.sign, text)
                     ELSE contains(e.sign, text)
      IN  IF matched THEN Some(e.tag)
          ELSE analyze_text_first_loop(t, text, k + 1)

analyze_text_first(t, text) ==
    IF ~Truthy(text) THEN t ELSE analyze_text_first_loop(t, Val(text), 1)

\* Failure.analyze_text(text), text an optional str: the tag afterwards
analyze_text(t, text) ==
    IF ~Truthy(text) THEN t ELSE analyze_text_loop(t, Val(text), 1)

\* The loop of Failure.analyze_steps from the i-th step on
RECURSIVE analyze_steps_loop(_, _, _)
analyze_steps_loop(t, steps, i) ==
    IF i > Len(steps) THEN t
    ELSE analyze_steps_loop(analyze_text(t, Some(steps[i].text)), steps, i + 1)

\* Failure.analyze_steps(steps), steps an optional list: [tag, calls], calls
\* the number of analyze_text calls made
analyze_steps(t, steps) ==
    IF ~Truthy(steps) THEN [tag |-> t, calls |-> 0]
    ELSE [tag |-> analyze_steps_loop(t, Val(steps), 1), calls |-> Len(Val(steps))]

\* Mutant of look_for_known_failures: no `return` after the marker is set
look_for_known_failures_no_return(t, successful, last_text, text, last_steps, steps) ==
    LET t0 == IF TruthyResult(successful) THEN Some("last build successful")
              ELSE t
        t1 == IF Truthy(last_text) THEN analyze_text(t0, last_text)
              ELSE analyze_text(t0, text)
        r == IF Truthy(last_steps) THEN analyze_steps(t1, last_steps)
             ELSE analyze_steps(t1, steps)
    IN  [tag |-> r.tag, calls |-> 1 + r.calls]

\* Mutant of look_for_known_failures: `if self.last_build_successful is not
\* None` in place of the truth test
look_for_known_failures_not_none(t, successful, last_text, text, last_steps, steps) ==
    IF successful # "None"
    THEN [tag |-> Some("last build successful"), calls |-> 0]
    ELSE
      LET t1 == IF Truthy(last_text) THEN analyze_text(t, last_text)
                ELSE analyze_text(t, text)
          r == IF Truthy(last_steps) THEN analyze_steps(t1, last_steps)
               ELSE analyze_steps(t1, steps)
      IN  [tag |-> r.tag, calls |-> 1 + r.calls]

\* Failure.look_for_known_failures(): [tag, calls] from the fields it reads
look_for_known_failures(t, successful, last_text, text, last_steps, steps) ==
    IF TruthyResult(successful)
    THEN [tag |-> Some("last build successful"), calls |-> 0]
    ELSE
      LET t1 == IF Truthy(last_text) THEN analyze_text(t, last_text)
                ELSE analyze_text(t, text)
          r == IF Truthy(last_steps) THEN analyze_steps(t1, last_steps)
               ELSE analyze_steps(t1, steps)
      IN  [tag |-> r.tag, calls |-> 1 + r.calls]

\* bool(x) of an optional str whose value is one token
TruthyStr(x) == ~IsNone(x) /\ Val(x) # ""

\* Mutant of failure_header: every section is rendered collapsed
failure_header_collapsed(t) == "collapsible collapsed"

\* Report.failure_header(failure, id): the css_class of the <h2> it emits
failure_header(t) ==
    IF TruthyStr(t) THEN "collapsible collapsed" ELSE "collapsible"

----------------------------------------------------------------------------
(* The inputs: what the fetched URLs can deliver. *)

\* Every way a fetch of a URL whose non-empty bodies are `bodies` can end
Outcomes(bodies) ==
    {[kind |-> k, body |-> b] :
        k \in {"ok", "cached"}, b \in {None} \cup {Some(p) : p \in bodies}}
    \cup {[kind |-> "HTTPError", body |-> None],
          [kind |-> "URLError", body |-> None]}

Page(titles, pres, links, results, spans, headers) ==
    [titles |-> titles, pres |-> pres, links |-> links, results |-> results,
     spans |-> spans, headers |-> headers]

BuildbotLink ==
    <<"http://winbot.zope.org", "/", "builders", "/", "z3c.authenticator",
      "/", "builds", "/", "5">>

\* A Provider-A link that names the latest build itself
BuildbotLinkLatest ==
    <<"http://winbot.zope.org", "/", "builders", "/", "z3c.authenticator",
      "/", "builds", "/", "-1">>

JenkinsLink ==
    <<"http://jenkins.starzel.de", "/", "job", "/", "zopetoolkit_trunk",
      "/", "5", "/">>

JenkinsLinkNoSlash ==
    <<"http://jenkins.starzel.de", "/", "job", "/", "zopetoolkit_trunk",
      "/", "5">>

OtherLink == <<"http://example.org", "/", "lists", "/", "archive.html">>

\* Failure.url, the archive page of the summary email
EmailUrl ==
    <<"https://mail.zope.org/pipermail/zope-tests/", "whatever", ".html">>

EmailPre == <<"<pre>", "Test failures", "\n", "</pre>">>

\* The archived summary email: hrefs of //pre/a (None: an <a> without href),
\* or a page without any <pre>
EmailPages ==
    {Page(<<<<"summary">>>>, <<EmailPre>>, links, <<>>, <<>>, <<>>) :
        links \in {<<>>, <<None>>, <<Some(BuildbotLink)>>, <<Some(JenkinsLink)>>,
                   <<Some(JenkinsLinkNoSlash)>>, <<Some(OtherLink)>>,
                   <<Some(OtherLink), Some(BuildbotLink)>>,
                   <<Some(BuildbotLinkLatest)>>}}
    \cup {Page(<<<<"404 Not Found">>>>, <<>>, <<>>, <<>>, <<>>, <<>>)}

LogPage(spans, headers) == Page(<<>>, <<>>, <<>>, <<>>, spans, headers)

Span(class, text) == [class |-> class, text |-> text]

\* A div.result of a build page whose relative links start with `number`
Div(class, title, number) ==
    [class |-> class, title |-> title,
     href |-> <<number, "/", "steps", "/", title>>]

\* The steps a build page can list: the div.result element and what the
\* fetch of its log delivers
StepPool(number) == {
    [div |-> Div("success result", "git", number),
     log |-> [kind |-> "ok", body |-> Some(LogPage(
         <<Span("stderr", <<"From git://github.com/", "zopefoundation/ZODB", "\n">>),
           Span("stdout", <<"HEAD is now at ", "6b484f8", " ", "Fix", "\n">>)>>,
         <<<<"starting git operation", "\n">>, <<"elapsedTime=0.407000", "\n">>>>))]],
    [div |-> Div("failure result", "test", number),
     log |-> [kind |-> "cached", body |-> Some(LogPage(
         <<Span("stdout", <<"Error: Couldn't open development-python.cfg", "\n">>)>>,
         <<<<"bin/test", " ", "\n", "in dir">>>>))]],
    [div |-> Div("failure result", "test", number),
     log |-> [kind |-> "ok", body |-> Some(LogPage(
         <<Span("stderr", <<"ERROR: 'xslt-config' is not recognized", "\n">>),
           Span("stdout", <<"Error: Couldn't open development-python.cfg", "\n">>)>>,
         <<>>))]],
    [div |-> Div("failure result", "compile", number),
     log |-> [kind |-> "HTTPError", body |-> None]],
    [div |-> Div("success result", "test", number),
     log |-> [kind |-> "URLError", body |-> None]] }

\* The step lists of a build page: up to MaxSteps steps
StepLists(number) ==
    UNION {[1..n -> StepPool(number)] : n \in 0..MaxSteps}

BuildbotTitles == {<<"Build", " ", "#", "3">>, <<"Build", " ", "#", "5">>,
                   <<"Build", " ", "#", "7">>, <<"Buildbot">>}

\* A buildbot build page: its title, if any, and its div.result elements
BuildPage(titles, list) ==
    Page(titles, <<>>, <<>>, [i \in DOMAIN list |-> list[i].div], <<>>, <<>>)

\* The fetches of one Failure.parse_buildbot call: that of the build page
\* and, for a page that was delivered, those of the logs of its steps
BuildFetches(number, titles) ==
    {[page |-> o, logs |-> <<>>] : o \in Outcomes({})}
    \cup {[page |-> [kind |-> k, body |-> Some(BuildPage(t, list))],
           logs |-> [i \in DOMAIN list |-> list[i].log]] :
              k \in {"ok"},
              t \in {<<>>} \cup {<<title>> : title \in titles},
              list \in StepLists(number)}

JenkinsTitles == {<<"zopetoolkit_trunk", " ", "#", "3", " ", "[Jenkins]">>,
                  <<"zopetoolkit_trunk", " ", "#", "5", " ", "[Jenkins]">>,
                  <<"zopetoolkit_trunk", " ", "#", "7", " ", "[Jenkins]">>,
                  <<"Jenkins">>}

\* A Jenkins build page: its title, if any
JenkinsPages ==
    {Page(<<t>>, <<>>, <<>>, <<>>, <<>>, <<>>) : t \in JenkinsTitles}
    \cup {Page(<<>>, <<>>, <<>>, <<>>, <<>>, <<>>)}

\* Bodies of a consoleText URL
ConsoleTexts == {
    <<"+ bin/test", "\n", "Ran 5 tests", "\n", "Finished: SUCCESS", "\n">>,
    <<"A    MOVED_TO_GITHUB", "\n", "Finished: SUCCESS", "\n">>,
    <<"+ bin/test", "\n", "echo ", "Finished: SUCCESS", "\n">>,
    <<"+ bin/test", "\n", "A    MOVED_TO_GITHUB", "\n", "Finished: FAILURE", "\n">>,
    <<"fatal: unable to connect to github.com:", "\n",
      "Error: Couldn't open development-python.cfg", "\n", "Finished: FAILURE", "\n">>,
    <<"+ bin/buildout", "\n",
      "Error: There is a version conflict. We already have: webtest 1", "\n",
      "Finished: FAILURE", "\n">>,
    <<"+ bin/buildout", "\n", "Finished: FAILURE", "\n">> }

----------------------------------------------------------------------------
(* Failure.analyze, one action per stretch of code between two fetches. *)

TruncateIdle == [state |-> "idle"]

\* The Urls of the cache under study
CacheUrls == {<<"http://winbot.zope.org", "/", "builders", "/",
                "z3c.authenticator", "/", "builds", "/", "-1">>,
              EmailUrl}

CACHE_DIR == "~/.cache/zope-test-janitor"

\* quote(url, safe=''): every token but letters, digits and "_.-~" is
\* percent-encoded, the "/" too
quote(url) ==
    [i \in DOMAIN url |->
        CASE url[i] = "/" -> "%2F"
          [] url[i] = "http://winbot.zope.org" -> "http%3A%2F%2Fwinbot.zope.org"
          [] url[i] = "https://mail.zope.org/pipermail/zope-tests/" ->
                 "https%3A%2F%2Fmail.zope.org%2Fpipermail%2Fzope-tests%2F"
          [] OTHER -> url[i]]

cache_filename(url) == <<CACHE_DIR, "/">> \o quote(url)

CacheFiles == {cache_filename(u) : u \in CacheUrls}

NoFile == [exists |-> FALSE]

NoCall == [state |-> "none"]

\* A fresh Failure: every field at its class default
FailureInit ==
    /\ pc = "parse_email"
    /\ exception = NoExc
    /\ warnings = 0
    /\ analyze_text_calls = 0
    /\ pre = None
    /\ first_link = None
    /\ build_number = None
    /\ build_link = None
    /\ build_source = None
    /\ console_text = None
    /\ buildbot_steps = None
    /\ last_build_link = None
    /\ last_build_number = None
    /\ last_build_source = None
    /\ last_console_text = None
    /\ last_build_steps = None
    /\ last_build_successful = "None"
    /\ tag = None
    /\ fetched = {}
    /\ header_class = None

\* No truncate_pre call is under study
TruncateNotCalled ==
    /\ tp_call = TruncateIdle
    /\ tp_result = TruncateIdle

\* main is not under study
MainNotStarted ==
    /\ email_lines = <<>>
    /\ date = <<"<unknown date>">>
    /\ failures = <<>>
    /\ main_pc = "idle"
    /\ index = 0
    /\ report_file = None

\* The cache is not under study: no file, no call
CacheNotUsed ==
    /\ cache = [fn \in CacheFiles |-> NoFile]
    /\ now = 0
    /\ advances = 0
    /\ cg_prev = NoCall
    /\ cg_last = NoCall

\* No link derivation is under study
LinksNotCalled == lk = [pc |-> "idle"]

\* No buildbot_source call is under study
SourceNotCalled ==
    /\ bs_steps = <<>>
    /\ bs_result = [state |-> "idle"]

Init ==
    /\ FailureInit
    /\ TruncateNotCalled
    /\ MainNotStarted
    /\ CacheNotUsed
    /\ LinksNotCalled
    /\ SourceNotCalled

Range(f) == {f[i] : i \in DOMAIN f}

\* One cached_get call of analyze
Fetch(url, max_age) == [url |-> url, max_age |-> max_age]

\* An exception leaves analyze: nothing catches it before main re-raises it
Raise(e) ==
    /\ pc' = "raised"
    /\ exception' = e

\* self.pre, first_link = self.parse_email(self.url)
ParseEmail ==
    /\ pc = "parse_email"
    /\ \E o \in Outcomes(EmailPages) :
          LET r == parse_email(o)
          IN  IF r.exc # NoExc
              THEN /\ Raise(r.exc)
                   /\ UNCHANGED <<pre, first_link>>
              ELSE /\ pre' = r.pre
                   /\ first_link' = r.first_link
                   /\ pc' = "buildbot"
                   /\ UNCHANGED exception
    /\ fetched' = fetched \cup {Fetch(EmailUrl, ONE_DAY)}
    /\ UNCHANGED <<warnings, analyze_text_calls, build_number, build_link,
                   build_source, console_text, buildbot_steps, last_build_link,
                   last_build_number, last_build_source, last_console_text,
                   last_build_steps, last_build_successful, tag, header_class,
                   other_vars>>

\* `if self.is_buildbot_link(first_link)` is false
NotBuildbot ==
    /\ pc = "buildbot"
    /\ ~is_buildbot_link(first_link)
    /\ pc' = "jenkins"
    /\ UNCHANGED <<exception, warnings, analyze_text_calls, failure_vars,
                   fetched, header_class, other_vars>>

\* The buildbot branch up to self.build_source: the two links, then the
\* scrape of the build page and of its step logs
BuildbotCurrent ==
    /\ pc = "buildbot"
    /\ is_buildbot_link(first_link)
    /\ build_link' = Some(parse_buildbot_link(Val(first_link), FALSE)[1])
    /\ last_build_link' = Some(parse_buildbot_link(Val(first_link), TRUE)[1])
    /\ \E f \in BuildFetches(rpartition(Val(first_link), "/")[3][1],
                             {<<"Build", " ", "#", "5">>, <<"Buildbot">>}) :
          LET r == parse_buildbot(Val(build_link'), None, FALSE, ONE_DAY,
                                  f.page, f.logs)
          IN  /\ fetched' = fetched \cup Range(r.fetched)
              /\ IF r.exc # NoExc
                 THEN /\ Raise(r.exc)
                      /\ UNCHANGED <<buildbot_steps, build_number, build_source>>
                 ELSE /\ buildbot_steps' = Some(r.steps)
                      /\ build_number' = Some(r.build_number)
                      /\ build_source' = buildbot_source(r.steps)
                      /\ pc' = "buildbot_last"
                      /\ UNCHANGED exception
    /\ UNCHANGED <<warnings, analyze_text_calls, pre, first_link,
                   console_text, last_build_number, last_build_source,
                   last_console_text, last_build_steps, last_build_successful,
                   tag, header_class, other_vars>>

\* Mutant of BuildbotLast: the source of the latest build falls back to
\* that of the current build when the latest step list is empty
BuildbotLastSourceFallback ==
    /\ pc = "buildbot_last"
    /\ \E f \in BuildFetches("-1", BuildbotTitles) :
          LET r == parse_buildbot(Val(last_build_link), build_number, TRUE,
                                  ONE_HOUR, f.page, f.logs)
              last == int(Some(r.build_number), 199)
              this == int(build_number, 199)
          IN  /\ fetched' = fetched \cup Range(r.fetched)
              /\ IF r.exc # NoExc
                 THEN /\ Raise(r.exc)
                      /\ UNCHANGED <<last_build_steps, last_build_number,
                                     last_build_successful, last_build_source,
                                     warnings>>
                 ELSE /\ last_build_steps' = Some(r.steps)
                      /\ last_build_number' = Some(r.build_number)
                      /\ last_build_successful' = buildbot_success(r.steps)
                      /\ last_build_source' = IF r.steps # <<>>
                                           THEN buildbot_source(r.steps)
                                           ELSE build_source
                      /\ IF last.exc # NoExc
                         THEN Raise(last.exc) /\ UNCHANGED warnings
                         ELSE IF this.exc # NoExc
                         THEN Raise(this.exc) /\ UNCHANGED warnings
                         ELSE /\ warnings' = IF last.value < this.value
                                             THEN warnings + 1 ELSE warnings
                              /\ pc' = "jenkins"
                              /\ UNCHANGED exception
    /\ UNCHANGED <<analyze_text_calls, pre, first_link, build_number,
                   build_link, build_source, console_text, buildbot_steps,
                   last_build_link, last_console_text, tag, header_class,
                   other_vars>>

\* The rest of the buildbot branch: the scrape of the latest build page, the
\* success and source of the latest build, the comparison of the numbers
BuildbotLast ==
    /\ pc = "buildbot_last"
    /\ \E f \in BuildFetches("-1", BuildbotTitles) :
          LET r == parse_buildbot(Val(last_build_link), build_number, TRUE,
                                  ONE_HOUR, f.page, f.logs)
              last == int(Some(r.build_number), 199)
              this == int(build_number, 199)
          IN  /\ fetched' = fetched \cup Range(r.fetched)
              /\ IF r.exc # NoExc
                 THEN /\ Raise(r.exc)
                      /\ UNCHANGED <<last_build_steps, last_build_number,
                                     last_build_successful, last_build_source,
                                     warnings>>
                 ELSE /\ last_build_steps' = Some(r.steps)
                      /\ last_build_number' = Some(r.build_number)
                      /\ last_build_successful' = buildbot_success(r.steps)
                      /\ last_build_source' = buildbot_source(r.steps)
                      /\ IF last.exc # NoExc
                         THEN Raise(last.exc) /\ UNCHANGED warnings
                         ELSE IF this.exc # NoExc
                         THEN Raise(this.exc) /\ UNCHANGED warnings
                         ELSE /\ warnings' = IF last.value < this.value
                                             THEN warnings + 1 ELSE warnings
                              /\ pc' = "jenkins"
                              /\ UNCHANGED exception
    /\ UNCHANGED <<analyze_text_calls, pre, first_link, build_number,
                   build_link, build_source, console_text, buildbot_steps,
                   last_build_link, last_console_text, tag, header_class,
                   other_vars>>

\* `if self.is_jenkins_link(first_link)` is false
NotJenkins ==
    /\ pc = "jenkins"
    /\ ~is_jenkins_link(first_link)
    /\ pc' = "look_for_known_failures"
    /\ UNCHANGED <<exception, warnings, analyze_text_calls, failure_vars,
                   fetched, header_class, other_vars>>

\* The Jenkins branch up to self.console_text
JenkinsCurrent ==
    /\ pc = "jenkins"
    /\ is_jenkins_link(first_link)
    /\ build_link' = Some(parse_jenkins_link(Val(first_link), FALSE)[1])
    /\ build_number' = Some(parse_jenkins_link(Val(first_link), FALSE)[2])
    /\ last_build_link' = Some(parse_jenkins_link(Val(first_link), TRUE)[1])
    /\ fetched' = fetched
          \cup {Fetch(Val(build_link') \o <<"consoleText">>, ONE_DAY)}
    /\ \E o \in Outcomes(ConsoleTexts) :
          LET r == parse_jenkins(o)
          IN  IF r.exc # NoExc
              THEN Raise(r.exc) /\ UNCHANGED console_text
              ELSE /\ console_text' = Some(r.text)
                   /\ pc' = "jenkins_last"
                   /\ UNCHANGED exception
    /\ UNCHANGED <<warnings, analyze_text_calls, pre, first_link,
                   build_source, buildbot_steps, last_build_number,
                   last_build_source, last_console_text, last_build_steps,
                   last_build_successful, tag, header_class, other_vars>>

\* The rest of the Jenkins branch: the number of the latest build and, when
\* it is another build, its console text and success
JenkinsLast ==
    /\ pc = "jenkins_last"
    /\ \E o \in Outcomes(JenkinsPages), o2 \in Outcomes(ConsoleTexts) :
          LET n == parse_jenkins_build_number(o)
              url == normalize_jenkins_url(Val(last_build_link), Val(n.build_number))
              r == parse_jenkins(o2)
              page == {Fetch(Val(last_build_link), ONE_HOUR)}
              text == {Fetch(url.url \o <<"consoleText">>, ONE_DAY)}
          IN  IF n.exc # NoExc
              THEN /\ Raise(n.exc)
                   /\ fetched' = fetched \cup page
                   /\ UNCHANGED <<last_build_number, last_console_text,
                                  last_build_successful>>
              ELSE /\ last_build_number' = n.build_number
                   /\ IF Truthy(n.build_number) /\ n.build_number # build_number
                      THEN IF url.exc # NoExc
                           THEN /\ Raise(url.exc)
                                /\ fetched' = fetched \cup page
                                /\ UNCHANGED <<last_console_text,
                                               last_build_successful>>
                           ELSE IF r.exc # NoExc
                           THEN /\ Raise(r.exc)
                                /\ fetched' = fetched \cup page \cup text
                                /\ UNCHANGED <<last_console_text,
                                               last_build_successful>>
                           ELSE /\ last_console_text' = Some(r.text)
                                /\ last_build_successful' = jenkins_success(r.text)
                                /\ fetched' = fetched \cup page \cup text
                                /\ pc' = "look_for_known_failures"
                                /\ UNCHANGED exception
                      ELSE /\ pc' = "look_for_known_failures"
                           /\ fetched' = fetched \cup page
                           /\ UNCHANGED <<exception, last_console_text,
                                          last_build_successful>>
    /\ UNCHANGED <<warnings, analyze_text_calls, pre, first_link,
                   build_number, build_link, build_source, console_text,
                   buildbot_steps, last_build_link, last_build_source,
                   last_build_steps, tag, header_class, other_vars>>

\* self.look_for_known_failures(), the last statement of analyze
LookForKnownFailures ==
    /\ pc = "look_for_known_failures"
    /\ LET r == look_for_known_failures(tag, last_build_successful,
                    last_console_text, console_text, last_build_steps,
                    buildbot_steps)
       IN  /\ tag' = r.tag
           /\ analyze_text_calls' = analyze_text_calls + r.calls
    /\ pc' = "done"
    /\ UNCHANGED <<exception, warnings, pre, first_link, build_number,
                   build_link, build_source, console_text, buildbot_steps,
                   last_build_link, last_build_number, last_build_source,
                   last_console_text, last_build_steps, last_build_successful,
                   fetched, header_class, other_vars>>

\* Report.write reaches the record: self.failure_header(failure, id)
FailureHeader ==
    /\ pc = "done"
    /\ header_class' = Some(failure_header(tag))
    /\ pc' = "written"
    /\ UNCHANGED <<exception, warnings, analyze_text_calls, failure_vars,
                   fetched, other_vars>>

Next ==
    \/ ParseEmail
    \/ NotBuildbot
    \/ BuildbotCurrent
    \/ BuildbotLast
    \/ NotJenkins
    \/ JenkinsCurrent
    \/ JenkinsLast
    \/ LookForKnownFailures
    \/ FailureHeader

Spec == Init /\ [][Next]_vars

----------------------------------------------------------------------------
(* Report.truncate_pre and its helpers. *)

\* lines of the text under study, and the largest first / last / min_middle
MaxLines == 4

MaxFirst == 2

MaxLast == 2

MaxMinMiddle == 2

Min(a, b) == IF a < b THEN a ELSE b

Max(a, b) == IF a > b THEN a ELSE b

\* s[start:stop] of a Python list: a negative index counts from the end,
\* indices are clipped to the list
PySlice(s, start, stop) ==
    LET n == Len(s)
        norm(i) == IF i < 0 THEN Max(n + i, 0) ELSE Min(i, n)
    IN  IF norm(start) < norm(stop) THEN SubSeq(s, norm(start) + 1, norm(stop))
        ELSE <<>>

\* s.splitlines(True): the lines of s, line ends kept
RECURSIVE splitlines(_)
splitlines(s) ==
    IF s = <<>> THEN <<>>
    ELSE LET i == FirstIndexFrom(s, "\n", 1)
         IN  IF i = 0 THEN <<s>>
             ELSE <<SubSeq(s, 1, i)>> \o splitlines(SubSeq(s, i + 1, Len(s)))

SectionMark == "<span class=\"section\">"

ErrorMark == "<span class=\"error\">"

\* The loop of Report.split_to_sections from the i-th line on
RECURSIVE split_to_sections_loop(_, _, _, _)
split_to_sections_loop(lines, i, pending, result) ==
    IF i > Len(lines)
    THEN IF pending # <<>> THEN Append(result, pending) ELSE result
    ELSE IF startswith(lines[i], <<SectionMark>>) /\ pending # <<>>
    THEN split_to_sections_loop(lines, i + 1, <<lines[i]>>, Append(result, pending))
    ELSE split_to_sections_loop(lines, i + 1, Append(pending, lines[i]), result)

\* Mutant of split_to_sections: the last pending section is never appended
RECURSIVE split_to_sections_no_flush_loop(_, _, _, _)
split_to_sections_no_flush_loop(lines, i, pending, result) ==
    IF i > Len(lines) THEN result
    ELSE IF startswith(lines[i], <<SectionMark>>) /\ pending # <<>>
    THEN split_to_sections_no_flush_loop(lines, i + 1, <<lines[i]>>,
                                         Append(result, pending))
    ELSE split_to_sections_no_flush_loop(lines, i + 1,
                                         Append(pending, lines[i]), result)

split_to_sections_no_flush(lines) ==
    split_to_sections_no_flush_loop(lines, 1, <<>>, <<>>)

\* Report.split_to_sections(lines)
split_to_sections(lines) == split_to_sections_loop(lines, 1, <<>>, <<>>)

\* Report.collapsed_text(lines)
collapsed_text(lines) ==
    LET n_errors == Cardinality({i \in DOMAIN lines : contains(ErrorMark, lines[i])})
        title == <<ToString(Len(lines)), " more lines">>
                 \o (IF n_errors = 1 THEN <<" and 1 error">>
                     ELSE IF n_errors # 0
                     THEN <<" and ", ToString(n_errors), " errors">>
                     ELSE <<>>)
    IN  <<"<span class=\"collapsible collapsed\">", "(">> \o title
            \o <<")", "</span>", "<article>">> \o join(lines) \o <<"</article>">>

\* The loop of Report.truncate_pre over the sections of the middle bit
RECURSIVE truncate_sections(_, _)
truncate_sections(sections, i) ==
    IF i > Len(sections) THEN <<>>
    ELSE LET section == sections[i]
         IN  (IF startswith(section[1], <<SectionMark>>)
              THEN <<section[1], collapsed_text(Tail(section))>>
              ELSE <<collapsed_text(section)>>)
             \o truncate_sections(sections, i + 1)

\* Mutant of truncate_pre: a short input is returned stripped, and the
\* threshold forgets min_middle
truncate_pre_eager(text, first, last, min_middle) ==
    LET lines == splitlines(strip(text))
    IN  IF Len(lines) < first + last THEN strip(text)
        ELSE LET first_bit == PySlice(lines, 0, first)
                 middle_bit == PySlice(lines, first, -last)
                 last_bit == PySlice(lines, -last, Len(lines))
             IN  join(first_bit
                      \o truncate_sections(split_to_sections(middle_bit), 1)
                      \o last_bit)

\* Report.truncate_pre(pre, first, last, min_middle)
truncate_pre(text, first, last, min_middle) ==
    LET lines == splitlines(strip(text))
    IN  IF Len(lines) < first + min_middle + last THEN text
        ELSE LET first_bit == PySlice(lines, 0, first)
                 middle_bit == PySlice(lines, first, -last)
                 last_bit == PySlice(lines, -last, Len(lines))
             IN  join(first_bit
                      \o truncate_sections(split_to_sections(middle_bit), 1)
                      \o last_bit)

\* The lines a text under study is made of
LinePool == {
    <<"blah", "\n">>,
    <<" ", "File something", "\n">>,
    <<SectionMark, "+ bin/test", "</span>", "\n">>,
    <<ErrorMark, "ERROR: something", "</span>", "\n">>,
    <<"\n">> }

\* The texts under study: up to MaxLines lines; the last line may lack its
\* line end
Texts ==
    LET whole == UNION {{join(l) : l \in [1..n -> LinePool]} : n \in 0..MaxLines}
    IN  whole \cup {SubSeq(t, 1, Len(t) - 1) : t \in whole \ {<<>>}}

InitTruncate ==
    /\ FailureInit
    /\ tp_call \in [state : {"called"}, pre : Texts, first : 0..MaxFirst,
                    last : 0..MaxLast, min_middle : 0..MaxMinMiddle]
    /\ tp_result = TruncateIdle
    /\ MainNotStarted
    /\ CacheNotUsed
    /\ LinksNotCalled
    /\ SourceNotCalled

\* One call of Report.truncate_pre returns
TruncatePre ==
    /\ tp_call.state = "called"
    /\ tp_result = TruncateIdle
    /\ tp_result' = [state |-> "returned",
                     value |-> truncate_pre(tp_call.pre, tp_call.first,
                                            tp_call.last, tp_call.min_middle)]
    /\ UNCHANGED <<analyze_vars, tp_call, report_vars, cache_vars, link_vars,
                   source_vars>>

NextTruncate == TruncatePre

SpecTruncate == InitTruncate /\ [][NextTruncate]_vars

----------------------------------------------------------------------------
(* Reading a truncate_pre result back: what a reader of the HTML sees.     *)

CollapsibleMark == "<span class=\"collapsible collapsed\">"

\* The text with every collapsed unit expanded: the labels of the units and
\* the <article> tags around their content removed
RECURSIVE Expanded(_, _)
Expanded(s, in_label) ==
    IF s = <<>> THEN <<>>
    ELSE IF in_label
    THEN Expanded(Tail(s), Head(s) # "</span>")
    ELSE IF Head(s) = CollapsibleMark THEN Expanded(Tail(s), TRUE)
    ELSE IF Head(s) \in {"<article>", "</article>"} THEN Expanded(Tail(s), FALSE)
    ELSE <<Head(s)>> \o Expanded(Tail(s), FALSE)

\* The text outside the collapsed units
RECURSIVE VisibleText(_, _)
VisibleText(s, in_unit) ==
    IF s = <<>> THEN <<>>
    ELSE IF in_unit
    THEN VisibleText(Tail(s), Head(s) # "</article>")
    ELSE IF Head(s) = CollapsibleMark THEN VisibleText(Tail(s), TRUE)
    ELSE <<Head(s)>> \o VisibleText(Tail(s), FALSE)

\* The call under study has returned
Returned == tp_result.state = "returned"

\* The lines truncate_pre counts: those of the whitespace-stripped input
InputLines == splitlines(strip(tp_call.pre))

Threshold == tp_call.first + tp_call.last + tp_call.min_middle

\* s occurs in t as a run of consecutive tokens
IsInfix(s, t) ==
    \E k \in 0..(Len(t) - Len(s)) : SubSeq(t, k + 1, k + Len(s)) = s

\* C5: for an input of at least first+last+min_middle lines, every line of
\* the (whitespace-stripped) input is in the output, visible or inside a
\* collapsed unit, and the lines follow each other there as in the input: no
\* line is dropped.
C5_EveryLinePreserved ==
    (Returned /\ Len(InputLines) >= Threshold) =>
        LET out == Expanded(tp_result.value, FALSE)
        IN  /\ \A i \in DOMAIN InputLines : IsInfix(InputLines[i], out)
            /\ IsInfix(strip(tp_call.pre), out)

\* C5 witness: an input of MaxLines lines was truncated, a section marker of
\* its middle stays visible and other lines sit inside a collapsed unit
C5_Witness ==
    /\ Returned
    /\ Len(InputLines) = MaxLines
    /\ tp_call.first = 1 /\ tp_call.last = 1 /\ tp_call.min_middle = 1
    /\ contains(CollapsibleMark, tp_result.value)
    /\ contains(SectionMark, VisibleText(tp_result.value, FALSE))
    /\ Len(splitlines(VisibleText(tp_result.value, FALSE))) < Len(InputLines)

\* C6: truncate_pre returns its input unchanged when the stripped input has
\* fewer than first+last+min_middle lines, and its output holds a collapsed
\* unit only when the input has at least that many lines.
C6_ShortInputUnchanged ==
    Returned =>
        /\ Len(InputLines) < Threshold => tp_result.value = tp_call.pre
        /\ contains(CollapsibleMark, tp_result.value) =>
               Len(InputLines) >= Threshold

\* C6 witness: an input one line short of the threshold, with white space
\* around it, came back as it was
C6_Witness ==
    /\ Returned
    /\ Len(InputLines) = Threshold - 1
    /\ Len(InputLines) >= 2
    /\ strip(tp_call.pre) # tp_call.pre
    /\ tp_result.value = tp_call.pre

\* C7 as stated, in the case it names (last = 0): for a non-empty input of
\* at least first+last+min_middle lines, truncated with last = 0, the number
\* of visible (non-collapsed) lines of the output is strictly smaller than
\* the number of input lines.
C7_VisibleLinesStrictlyFewer ==
    (Returned /\ Len(InputLines) >= Threshold /\ Len(InputLines) >= 1
        /\ tp_call.last = 0) =>
        Len(splitlines(VisibleText(tp_result.value, FALSE))) < Len(InputLines)

----------------------------------------------------------------------------
(* Claims about Failure.analyze. *)

AllSuccess(steps) ==
    \A i \in DOMAIN steps : steps[i].css_class = "success result"

\* C1: buildbot_success(steps) is truthy if and only if the step list is
\* non-empty and every step's css_class is "success result"; for the empty
\* list it is never truthy.  (analyze stores buildbot_success of the latest
\* steps in last_build_successful.)
C1_SuccessIffNonEmptyAllSuccess ==
    ~IsNone(last_build_steps) =>
        (TruthyResult(last_build_successful)
            <=> (Val(last_build_steps) # <<>> /\ AllSuccess(Val(last_build_steps))))

\* C1 witness: the latest build is another build, its page lists no step, and
\* the evaluation of its empty step list is not truthy
C1_Witness ==
    /\ pc = "done"
    /\ last_build_steps = Some(<<>>)
    /\ last_build_number # build_number
    /\ ~TruthyResult(last_build_successful)

\* The buildbot branch has stored what the scrape of the latest page returned
BuildbotLastStored == ~IsNone(last_build_steps) /\ ~IsNone(last_build_number)

\* C2 as stated: when the latest build number equals the current one,
\* last_build_successful is (as a truth value) the success of the current
\* steps.
C2_SuccessFromCurrentSteps ==
    (BuildbotLastStored /\ last_build_number = build_number) =>
        (TruthyResult(last_build_successful)
            <=> TruthyResult(buildbot_success(Val(buildbot_steps))))

\* C2 amended: when the latest build number equals the current one, the
\* latest step list is the empty list returned by the short-circuited scrape
\* and last_build_successful is the evaluation of that empty list, which is
\* not truthy, whatever the current steps are.
C2_SuccessFromEmptyList ==
    (BuildbotLastStored /\ last_build_number = build_number) =>
        /\ last_build_steps = Some(<<>>)
        /\ last_build_successful = "[]"
        /\ ~TruthyResult(last_build_successful)

\* C2 witness: the latest build is the current build, every current step
\* succeeded, and last_build_successful is the empty list
C2_Witness ==
    /\ pc = "done"
    /\ BuildbotLastStored
    /\ last_build_number = build_number
    /\ Val(buildbot_steps) # <<>>
    /\ AllSuccess(Val(buildbot_steps))
    /\ last_build_successful = "[]"

\* C3: if last_build_successful is truthy, look_for_known_failures sets tag
\* to 'last build successful' and analyze_text is never run.
C3_SuccessfulStopsTagging ==
    (pc = "done" /\ TruthyResult(last_build_successful)) =>
        /\ tag = Some("last build successful")
        /\ analyze_text_calls = 0

\* C3 witness: the latest build succeeded and its console text holds a known
\* failure signature, which was not looked for
C3_Witness ==
    /\ pc = "done"
    /\ TruthyResult(last_build_successful)
    /\ analyze_text(None, last_console_text) # None
    /\ tag = Some("last build successful")

\* The texts look_for_known_failures scans, in scan order: the console text
\* (latest if truthy, else current), then the step texts (latest steps if
\* truthy, else current steps); a falsy text is not scanned
ScanTexts ==
    LET console == IF Truthy(last_console_text) THEN last_console_text
                   ELSE console_text
        steps == IF Truthy(last_build_steps) THEN Val(last_build_steps)
                 ELSE IF Truthy(buildbot_steps) THEN Val(buildbot_steps)
                 ELSE <<>>
    IN  (IF Truthy(console) THEN <<Val(console)>> ELSE <<>>)
        \o [i \in DOMAIN steps |-> steps[i].text]

\* Entry k of KNOWN_FAILURES matches the text
SignMatches(k, text) ==
    IF KNOWN_FAILURES[k].regexp THEN search(KNOWN_FAILURES[k].sign, text)
    ELSE contains(KNOWN_FAILURES[k].sign, text)

MatchingPairs ==
    {p \in (DOMAIN ScanTexts) \X (DOMAIN KNOWN_FAILURES) :
        SignMatches(p[2], ScanTexts[p[1]])}

\* The last matching (text, signature) pair in scan order
LastMatchingPair ==
    CHOOSE p \in MatchingPairs :
        \A q \in MatchingPairs :
            q[1] < p[1] \/ (q[1] = p[1] /\ q[2] <= p[2])

\* C4: when the latest build did not succeed, the final tag is that of the
\* last matching (text, signature) pair in scan order (console text first,
\* then the step texts in step order; within a text, table order), and
\* without any match the tag stays as it was (absent).
C4_LastMatchWins ==
    (pc = "done" /\ ~TruthyResult(last_build_successful)) =>
        tag = IF MatchingPairs = {} THEN None
              ELSE Some(KNOWN_FAILURES[LastMatchingPair[2]].tag)

\* C4 witness: two texts were scanned; the first matches only entry 1, the
\* second matches entries 1 and 2 (entry 2 earlier in the text), and the tag
\* is that of entry 2
C4_Witness ==
    /\ pc = "done"
    /\ ~TruthyResult(last_build_successful)
    /\ Len(ScanTexts) = 2
    /\ SignMatches(1, ScanTexts[1]) /\ ~SignMatches(2, ScanTexts[1])
    /\ SignMatches(1, ScanTexts[2]) /\ SignMatches(2, ScanTexts[2])
    /\ tag = Some(KNOWN_FAILURES[2].tag)

\* C8 as stated: a failed fetch never becomes an exception: no exception
\* leaves analyze from a statement that handles a failed fetch or its empty
\* result.
C8_FailedFetchNeverRaises == ~(pc = "raised" /\ exception.nodata)

\* C9 as stated: a build page without a title never makes a scraper raise:
\* no IndexError leaves analyze from the title lookup of parse_buildbot
\* (line 247) or of parse_jenkins_build_number (line 326).
C9_NoTitleNeverRaises ==
    ~(pc = "raised" /\ exception.type = "IndexError" /\ exception.at \in {247, 326})

\* Both build numbers are decimal numbers and the latest is the smaller one
LatestOlder ==
    /\ int(last_build_number, 0).exc = NoExc
    /\ int(build_number, 0).exc = NoExc
    /\ int(last_build_number, 0).value < int(build_number, 0).value

\* C10 as stated: for either provider, a latest build number smaller than
\* the current one is warned about once analysis is done, and the comparison
\* of the two numbers (line 199) never raises.
C10_OlderLatestWarnsNeverRaises ==
    /\ (pc = "done" /\ LatestOlder) => warnings >= 1
    /\ ~(pc = "raised" /\ exception.at = 199)


\* The last line of a text, trailing white space stripped
LastLineStripped(text) == rpartition(rstrip(text), "\n")[3]

\* C11 as stated: jenkins_success is true if and only if the last line of
\* the console text, trailing white space stripped, equals the completion
\* marker 'Finished: SUCCESS'; a last line that merely ends with the marker
\* is judged unsuccessful.  (analyze stores jenkins_success of the latest
\* console text in last_build_successful.)
C11_SuccessIffLastLineIsMarker ==
    (~IsNone(last_console_text) /\ last_build_successful # "None") =>
        (TruthyResult(last_build_successful)
            <=> LastLineStripped(Val(last_console_text)) = <<"Finished: SUCCESS">>)


\* The first link has the Provider-A shape / the Provider-B shape
ProviderA == Truthy(first_link) /\ BUILDER_URL(Val(first_link))

ProviderB == Truthy(first_link) /\ JENKINS_URL(Val(first_link))

\* C12: after analyze completes, buildbot_steps and console_text are never
\* both populated; a Provider-A link populates buildbot_steps and no console
\* text, a Provider-B link (trailing slash required) populates console_text
\* and no steps, and a link of neither shape, or no link, leaves every build
\* and latest-build field unset.
C12_AtMostOneProvider ==
    pc = "done" =>
        /\ IsNone(buildbot_steps) \/ IsNone(console_text)
        /\ ProviderA =>
              /\ ~IsNone(buildbot_steps)
              /\ IsNone(console_text) /\ IsNone(last_console_text)
        /\ ProviderB =>
              /\ ~IsNone(console_text)
              /\ IsNone(buildbot_steps) /\ IsNone(last_build_steps)
              /\ IsNone(build_source) /\ IsNone(last_build_source)
        /\ (~ProviderA /\ ~ProviderB) =>
              /\ \A f \in {build_number, build_link, build_source, console_text,
                           buildbot_steps, last_build_link, last_build_number,
                           last_build_source, last_console_text,
                           last_build_steps} : IsNone(f)
              /\ last_build_successful = "None"

\* C12 witness: analysis of a record whose first link is a Jenkins build URL
\* without the trailing slash completed, and no branch ran
C12_Witness ==
    /\ pc = "done"
    /\ first_link = Some(JenkinsLinkNoSlash)
    /\ IsNone(console_text) /\ IsNone(buildbot_steps) /\ IsNone(build_link)


\* The first link up to and including '/builds/'
BuildsPrefix == SubSeq(Val(first_link), 1, Len(Val(first_link)) - 1)

\* C17: for a Provider-A link '.../builds/<n>' the latest link is the same
\* URL with only the final segment replaced by '-1'; and once the latest
\* page resolved to build number m, every latest step's log URL is
\* '.../builds/<m>/<rest>/logs/stdio', <rest> being what followed '-1/' in
\* the step's relative link (here 'steps/<step title>').
C17_LatestLinksRewritten ==
    (ProviderA /\ ~IsNone(last_build_link)) =>
        /\ last_build_link = Some(BuildsPrefix \o <<"-1">>)
        /\ ~IsNone(last_build_steps) =>
              \A i \in DOMAIN Val(last_build_steps) :
                  Val(last_build_steps)[i].link =
                      BuildsPrefix \o Val(last_build_number)
                          \o <<"/", "steps", "/",
                               Val(last_build_steps)[i].title, "/logs/stdio">>

\* C17 witness: the link names build 5, the latest page resolved to build 7
\* and lists two steps, whose log URLs lie under '/builds/7/'
C17_Witness ==
    /\ pc = "done"
    /\ ProviderA
    /\ build_number = Some(<<"5">>)
    /\ last_build_number = Some(<<"7">>)
    /\ Len(Val(last_build_steps)) = 2
    /\ \A i \in 1..2 :
          startswith(Val(last_build_steps)[i].link,
                     BuildsPrefix \o <<"7", "/", "steps">>)


\* The URL is a 'latest' pointer page: a Provider-A '/-1' build page or a
\* Provider-B 'lastBuild/' page
IsLatestPointer(url) ==
    endswith(url, <<"/", "-1">>) \/ endswith(url, <<"/", "lastBuild", "/">>)

\* The URL names a concrete build: a decimal number is one of its path
\* segments, and neither '-1' nor 'lastBuild' is
NamesConcreteBuild(url) ==
    /\ \E i \in DOMAIN url : url[i] \in DigitTokens
    /\ \A i \in DOMAIN url : url[i] \notin {"-1", "lastBuild"}

\* C19 as stated: of the build pages, step logs and console texts that
\* analyze fetches, every 'latest' pointer page is fetched with the one-hour
\* budget, which is strictly shorter than the one-day budget, and only URLs
\* that name a concrete build number are fetched with the one-day budget.
C19_LatestPagesUseShortBudget ==
    /\ ONE_HOUR < ONE_DAY
    /\ \A f \in fetched :
          f.url # EmailUrl =>
              /\ IsLatestPointer(f.url) => f.max_age = ONE_HOUR
              /\ f.max_age = ONE_DAY => NamesConcreteBuild(f.url)


\* C20 as stated: for a Provider-A record, last_build_source is the
\* provenance extracted from the latest steps when that list is non-empty,
\* and otherwise the provenance extracted from the current steps, so that it
\* then equals build_source.
C20_SourceFallsBackToCurrent ==
    BuildbotLastStored =>
        /\ Val(last_build_steps) # <<>> =>
              last_build_source = buildbot_source(Val(last_build_steps))
        /\ Val(last_build_steps) = <<>> =>
              /\ last_build_source = buildbot_source(Val(buildbot_steps))
              /\ last_build_source = build_source

\* C20 amended: for a Provider-A record, last_build_source is always the
\* provenance extracted from the latest step list; when that list is empty
\* (in particular when the latest fetch was short-circuited) it is None,
\* whatever build_source is.
C20_SourceFromLatestStepsOnly ==
    BuildbotLastStored =>
        /\ Val(last_build_steps) # <<>> =>
              last_build_source = buildbot_source(Val(last_build_steps))
        /\ Val(last_build_steps) = <<>> => IsNone(last_build_source)

\* C20 witness: the latest build is the current build, whose steps name a
\* commit, and last_build_source is None
C20_Witness ==
    /\ pc = "done"
    /\ BuildbotLastStored
    /\ last_build_number = build_number
    /\ Val(last_build_steps) = <<>>
    /\ ~IsNone(build_source)
    /\ IsNone(last_build_source)


\* C18: a record whose latest build did not succeed and none of whose
\* scanned texts matches a signature ends analysis with tag absent; and
\* failure_header renders a record's section expanded (class 'collapsible')
\* if and only if its tag is absent, collapsed (class 'collapsible
\* collapsed') if and only if a tag is set.
C18_UntaggedRendersExpanded ==
    /\ (pc \in {"done", "written"} /\ ~TruthyResult(last_build_successful)
            /\ MatchingPairs = {}) => IsNone(tag)
    /\ pc = "written" =>
          /\ header_class = Some("collapsible") <=> IsNone(tag)
          /\ header_class = Some("collapsible collapsed") <=> ~IsNone(tag)

\* C18 witness: the latest build failed, two texts were scanned and neither
\* matched, and the header of the untagged record was rendered expanded
C18_Witness ==
    /\ pc = "written"
    /\ last_build_successful = "False"
    /\ Len(ScanTexts) = 2
    /\ MatchingPairs = {}
    /\ IsNone(tag)
    /\ header_class = Some("collapsible")


----------------------------------------------------------------------------
(* The Provider-A link derivations, applied in a chain: latest link of a   *)
(* URL, that link normalized to a build number, latest link of the result. *)

\* The Provider-A URLs under study: with and without a path before
\* '/builders/', a builder that is itself named 'builds' or 'builders', a
\* concrete build number or -1
LinkUrls ==
    {prefix \o <<"/", "builders", "/", builder, "/", "builds", "/", number>> :
        prefix \in {<<"http://winbot.zope.org">>,
                    <<"http://winbot.zope.org", "/", "buildbot">>},
        builder \in {"z3c.authenticator", "builds", "builders"},
        number \in DigitTokens \cup {"-1"}}

\* The build numbers a latest link is normalized to
LinkNumbers == {<<d>> : d \in DigitTokens}

InitLinks ==
    /\ FailureInit
    /\ TruncateNotCalled
    /\ MainNotStarted
    /\ CacheNotUsed
    /\ SourceNotCalled
    /\ lk \in [pc : {"derive"}, url : LinkUrls, n : LinkNumbers,
               latest : {None}, normalized : {None}, again : {None},
               exc : {NoExc}]

\* self.parse_buildbot_link(url, latest=True)
DeriveLatest ==
    /\ lk.pc = "derive"
    /\ LET r == parse_buildbot_link_checked(lk.url, TRUE)
       IN  lk' = IF r.exc # NoExc
                 THEN [lk EXCEPT !.pc = "raised", !.exc = r.exc]
                 ELSE [lk EXCEPT !.pc = "normalize", !.latest = Some(r.link)]
    /\ UNCHANGED <<analyze_vars, truncate_vars, report_vars, cache_vars,
                 source_vars>>

\* self.normalize_buildbot_url(latest, n)
Normalize ==
    /\ lk.pc = "normalize"
    /\ LET r == normalize_buildbot_url(Val(lk.latest), lk.n)
       IN  lk' = IF r.exc # NoExc
                 THEN [lk EXCEPT !.pc = "raised", !.exc = r.exc]
                 ELSE [lk EXCEPT !.pc = "derive_again",
                                 !.normalized = Some(r.url)]
    /\ UNCHANGED <<analyze_vars, truncate_vars, report_vars, cache_vars,
                 source_vars>>

\* self.parse_buildbot_link(normalized, latest=True)
DeriveAgain ==
    /\ lk.pc = "derive_again"
    /\ LET r == parse_buildbot_link_checked(Val(lk.normalized), TRUE)
       IN  lk' = IF r.exc # NoExc
                 THEN [lk EXCEPT !.pc = "raised", !.exc = r.exc]
                 ELSE [lk EXCEPT !.pc = "done", !.again = Some(r.link)]
    /\ UNCHANGED <<analyze_vars, truncate_vars, report_vars, cache_vars,
                 source_vars>>

NextLinks ==
    \/ DeriveLatest
    \/ Normalize
    \/ DeriveAgain

SpecLinks == InitLinks /\ [][NextLinks]_vars

\* C16: for every Provider-A URL and every decimal build number n, the
\* latest link of the URL, normalized to build n and made a latest link
\* again, is the same latest link, and no step of the chain fails; the latest
\* link of an already-latest ('/-1') URL is that URL.
C16_LatestLinkIdempotent ==
    /\ lk.pc # "raised"
    /\ lk.pc = "done" =>
          /\ lk.again = lk.latest
          /\ Val(lk.normalized) =
                 SubSeq(lk.url, 1, Len(lk.url) - 1) \o lk.n
    /\ (lk.pc \in {"normalize", "derive_again", "done"}
            /\ endswith(lk.url, <<"/", "-1">>)) => lk.latest = Some(lk.url)

\* C16 witness: the chain ran for a URL of build 5 under a path, of a
\* builder named 'builds', normalized to build 7
C16_Witness ==
    /\ lk.pc = "done"
    /\ Len(lk.url) = 11
    /\ lk.url[9] = "builds"
    /\ lk.url[11] = "5"
    /\ lk.n = <<"7">>
    /\ Val(lk.normalized)[11] = "7"
    /\ lk.again = lk.latest
    /\ Val(lk.latest)[11] = "-1"


----------------------------------------------------------------------------
(* main: Report.parse_email over the lines of the summary email, the loop  *)
(* of Report.fetch_emails, Report.write.                                   *)

\* lines of the summary email
MaxEmailLines == 3

\* DATE_PATTERN.match(line), r'^Date: (.*)$': the optional group
DATE_PATTERN(line) ==
    IF Len(line) >= 2 /\ line[1] = "Date:" /\ line[2] = " "
          /\ \A i \in 3..Len(line) : line[i] # "\n"
    THEN Some(SubSeq(line, 3, Len(line)))
    ELSE None

\* Tokens that \[\d+\] matches, and tokens that begin with a capital
BracketNumberTokens == {"[1]", "[42]"}

CapitalizedTokens == {"FAIL: everything", "ERROR: other"}

\* The index of the first token of line from i on that is no white space
\* (Len(line) + 1 if there is none)
RECURSIVE SkipWhitespace(_, _)
SkipWhitespace(line, i) ==
    IF i <= Len(line) /\ line[i] \in WhitespaceTokens
    THEN SkipWhitespace(line, i + 1) ELSE i

\* What `.*` matches from the i-th token on: up to the line end
RECURSIVE UpToNewline(_, _)
UpToNewline(line, i) ==
    IF i > Len(line) \/ line[i] = "\n" THEN <<>>
    ELSE <<line[i]>> \o UpToNewline(line, i + 1)

\* TITLE_PATTERN.match(line), r'^(\[\d+\]\s*[A-Z].*)': the optional group
TITLE_PATTERN(line) ==
    IF line # <<>> /\ line[1] \in BracketNumberTokens
    THEN LET k == SkipWhitespace(line, 2)
         IN  IF k <= Len(line) /\ line[k] \in CapitalizedTokens
             THEN Some(SubSeq(line, 1, k - 1) \o UpToNewline(line, k))
             ELSE None
    ELSE None

UrlPrefix == "https://mail.zope.org/pipermail/zope-tests/"

\* URL_PATTERN.match(line),
\* r'^\s+(https://mail.zope.org/pipermail/zope-tests/.*\.html)': the
\* optional group, from the prefix to the last '.html' of the line
URL_PATTERN(line) ==
    LET k == SkipWhitespace(line, 1)
        rest == UpToNewline(line, k)
        last == LastIndex(rest, ".html")
    IN  IF k >= 2 /\ k <= Len(line) /\ line[k] = UrlPrefix /\ last # 0
        THEN Some(SubSeq(rest, 1, last))
        ELSE None

\* A record of Report.failures: Failure(title, url), and where its analysis
\* stands ("new", "analyzing", "analyzed", "raised")
Failure(title, url) == [title |-> title, url |-> url, state |-> "new"]

\* Mutant of parse_email_loop: the title is forgotten once it was used
RECURSIVE parse_email_loop_reset(_, _, _, _, _)
parse_email_loop_reset(lines, i, title, d, list) ==
    IF i > Len(lines) THEN [date |-> d, failures |-> list]
    ELSE
      LET line == rstrip(lines[i])
      IN  IF ~IsNone(DATE_PATTERN(line))
          THEN parse_email_loop_reset(lines, i + 1, title,
                                      Val(DATE_PATTERN(line)), list)
          ELSE IF ~IsNone(TITLE_PATTERN(line))
          THEN parse_email_loop_reset(lines, i + 1, Val(TITLE_PATTERN(line)),
                                      d, list)
          ELSE IF ~IsNone(URL_PATTERN(line))
          THEN parse_email_loop_reset(lines, i + 1, <<"<unknown title>">>, d,
                   Append(list, Failure(title, Val(URL_PATTERN(line)))))
          ELSE parse_email_loop_reset(lines, i + 1, title, d, list)

\* The loop of Report.parse_email from the i-th line on, with the current
\* title, Report.date and Report.failures: [date, failures] afterwards
RECURSIVE parse_email_loop(_, _, _, _, _)
parse_email_loop(lines, i, title, d, list) ==
    IF i > Len(lines) THEN [date |-> d, failures |-> list]
    ELSE
      LET line == rstrip(lines[i])
      IN  IF ~IsNone(DATE_PATTERN(line))
          THEN parse_email_loop(lines, i + 1, title, Val(DATE_PATTERN(line)),
                                list)
          ELSE IF ~IsNone(TITLE_PATTERN(line))
          THEN parse_email_loop(lines, i + 1, Val(TITLE_PATTERN(line)), d, list)
          ELSE IF ~IsNone(URL_PATTERN(line))
          THEN parse_email_loop(lines, i + 1, title, d,
                   Append(list, Failure(title, Val(URL_PATTERN(line)))))
          ELSE parse_email_loop(lines, i + 1, title, d, list)

\* The lines a summary email is made of
EmailLinePool == {
    <<"Date:", " ", "today", "\n">>,
    <<"Date:", " ", "\n">>,
    <<"[1]", " ", "FAIL: everything", "\n">>,
    <<"[42]", "ERROR: other", " ", "\n">>,
    <<"[1]", " ", "lower case", "\n">>,
    <<" ", UrlPrefix, "whatever", ".html", "\n">>,
    <<" ", " ", UrlPrefix, "other", ".html", ".html", " ", "\n">>,
    <<UrlPrefix, "whatever", ".html", "\n">>,
    <<"Anything else", "\n">> }

Emails == UNION {[1..n -> EmailLinePool] : n \in 0..MaxEmailLines}


InitReport ==
    /\ FailureInit
    /\ TruncateNotCalled
    /\ CacheNotUsed
    /\ LinksNotCalled
    /\ SourceNotCalled
    /\ email_lines \in Emails
    /\ date = <<"<unknown date>">>
    /\ failures = <<>>
    /\ main_pc = "parse_email"
    /\ index = 0
    /\ report_file = None

\* report.analyze(summary_email), first half: self.parse_email(email_lines)
ReportParseEmail ==
    /\ main_pc = "parse_email"
    /\ LET r == parse_email_loop(email_lines, 1, <<"<unknown title>">>, date,
                                 failures)
       IN  /\ date' = r.date
           /\ failures' = r.failures
    /\ main_pc' = "fetch_emails"
    /\ UNCHANGED <<email_lines, index, report_file, analyze_vars,
                   truncate_vars, cache_vars, link_vars,
                   source_vars>>

\* The call of failure.analyze() made before is over
LastAnalyzeOver ==
    IF index = 0 THEN TRUE ELSE failures[index].state # "analyzing"

\* fetch_emails: the loop takes the next record and calls failure.analyze()
FetchEmailsNext ==
    /\ main_pc = "fetch_emails"
    /\ LastAnalyzeOver
    /\ index < Len(failures)
    /\ index' = index + 1
    /\ failures' = [failures EXCEPT ![index + 1].state = "analyzing"]
    /\ UNCHANGED <<email_lines, date, main_pc, report_file, analyze_vars,
                   truncate_vars, cache_vars, link_vars,
                   source_vars>>

\* failure.analyze() returns
AnalyzeReturns ==
    /\ main_pc = "fetch_emails"
    /\ ~LastAnalyzeOver
    /\ failures' = [failures EXCEPT ![index].state = "analyzed"]
    /\ UNCHANGED <<email_lines, date, main_pc, index, report_file,
                   analyze_vars, truncate_vars, cache_vars, link_vars,
                   source_vars>>

\* Mutant of AnalyzeRaises: fetch_emails catches the exception and goes on
AnalyzeRaisesCaught ==
    /\ main_pc = "fetch_emails"
    /\ ~LastAnalyzeOver
    /\ failures' = [failures EXCEPT ![index].state = "raised"]
    /\ UNCHANGED <<email_lines, date, main_pc, index, report_file,
                   analyze_vars, truncate_vars, cache_vars, link_vars,
                   source_vars>>

\* failure.analyze() raises: the exception leaves fetch_emails and
\* Report.analyze, and main re-raises it
AnalyzeRaises ==
    /\ main_pc = "fetch_emails"
    /\ ~LastAnalyzeOver
    /\ failures' = [failures EXCEPT ![index].state = "raised"]
    /\ main_pc' = "aborted"
    /\ UNCHANGED <<email_lines, date, index, report_file, analyze_vars,
                   truncate_vars, cache_vars, link_vars,
                   source_vars>>

\* The loop of fetch_emails is over; filename = report.write(): one section
\* per record
Write ==
    /\ main_pc = "fetch_emails"
    /\ LastAnalyzeOver
    /\ index = Len(failures)
    /\ report_file' = Some([i \in DOMAIN failures |-> failures[i].title])
    /\ main_pc' = "exit"
    /\ UNCHANGED <<email_lines, date, failures, index, analyze_vars,
                   truncate_vars, cache_vars, link_vars,
                   source_vars>>

NextReport ==
    \/ ReportParseEmail
    \/ FetchEmailsNext
    \/ AnalyzeReturns
    \/ AnalyzeRaises
    \/ Write

SpecReport == InitReport /\ [][NextReport]_vars

\* The lines of the email that match URL_PATTERN, and the k-th of them
UrlLines == {i \in DOMAIN email_lines : ~IsNone(URL_PATTERN(rstrip(email_lines[i])))}

KthUrlLine(k) ==
    CHOOSE i \in UrlLines : Cardinality({j \in UrlLines : j < i}) = k - 1

\* The title in force at line i: that of the closest line before it that
\* matches TITLE_PATTERN
TitleAt(i) ==
    LET before == {j \in 1..(i - 1) :
                      ~IsNone(TITLE_PATTERN(rstrip(email_lines[j])))}
    IN  IF before = {} THEN <<"<unknown title>">>
        ELSE LET j == CHOOSE j \in before : \A h \in before : h <= j
             IN  Val(TITLE_PATTERN(rstrip(email_lines[j])))

\* C13: Report.parse_email appends exactly one Failure per line matching
\* URL_PATTERN, in input order, each with the URL of its line and the title
\* of the most recent preceding line matching TITLE_PATTERN ('<unknown
\* title>' if there was none); no other line creates a record.
C13_OneFailurePerUrlLine ==
    main_pc \notin {"idle", "parse_email"} =>
        /\ Len(failures) = Cardinality(UrlLines)
        /\ \A k \in DOMAIN failures :
              /\ failures[k].url = Val(URL_PATTERN(rstrip(email_lines[KthUrlLine(k)])))
              /\ failures[k].title = TitleAt(KthUrlLine(k))

\* C13 witness: an email of a URL line, a title line and a URL line gave two
\* records, the first without a title, the second with the title between
C13_Witness ==
    /\ main_pc = "fetch_emails"
    /\ Len(email_lines) = 3
    /\ Len(failures) = 2
    /\ failures[1].title = <<"<unknown title>">>
    /\ failures[2].title = rstrip(email_lines[2])
    /\ failures[2].title # failures[1].title

\* C15: records are analyzed one at a time in list order, each fully
\* analyzed before the next begins; the report is written only after every
\* record has been analyzed; and if the analysis of a record raises, the run
\* aborts and no report is written.
C15_SequentialThenWrite ==
    /\ \A i \in DOMAIN failures :
          /\ i > index <=> failures[i].state = "new"
          /\ i < index => failures[i].state = "analyzed"
    /\ Cardinality({i \in DOMAIN failures : failures[i].state = "analyzing"}) <= 1
    /\ ~IsNone(report_file) =>
          /\ \A i \in DOMAIN failures : failures[i].state = "analyzed"
          /\ Len(Val(report_file)) = Len(failures)
    /\ (\E i \in DOMAIN failures : failures[i].state = "raised") =>
          /\ IsNone(report_file)
          /\ main_pc = "aborted"

\* C15 witness: of three records the first was analyzed, the analysis of
\* the second raised, the third was never begun, and there is no report
C15_Witness ==
    /\ main_pc = "aborted"
    /\ Len(failures) = 3
    /\ failures[1].state = "analyzed"
    /\ failures[2].state = "raised"
    /\ failures[3].state = "new"
    /\ IsNone(report_file)


----------------------------------------------------------------------------
(* cached_get over the files of CACHE_DIR and the clock. *)

MaxAdvances == 2

\* The steps by which time passes between two calls
ClockSteps == {1, ONE_HOUR, ONE_DAY}

\* What urlopen(url) answers; body None is the empty byte string
CacheOutcomes ==
    {[kind |-> "ok", body |-> Some("<html><pre>...</pre></html>")],
     [kind |-> "ok", body |-> None],
     [kind |-> "HTTPError", body |-> None],
     [kind |-> "URLError", body |-> None]}

\* get_from_cache(filename, max_age) at time t: hit = FALSE is the None the
\* code returns for a missing file (IOError) and for a file older than
\* max_age; a hit returns f.read(), the empty string of an empty file too
get_from_cache(files, filename, max_age, t) ==
    IF ~files[filename].exists THEN [hit |-> FALSE, body |-> None]
    ELSE LET age == t - files[filename].mtime
         IN  IF age > max_age THEN [hit |-> FALSE, body |-> None]
             ELSE [hit |-> TRUE, body |-> files[filename].body]

InitCache ==
    /\ FailureInit
    /\ TruncateNotCalled
    /\ MainNotStarted
    /\ LinksNotCalled
    /\ SourceNotCalled
    /\ cache = [fn \in CacheFiles |-> NoFile]
    /\ now = 0
    /\ advances = 0
    /\ cg_prev = NoCall
    /\ cg_last = NoCall

\* time.time() moves on between two calls
Tick ==
    /\ advances < MaxAdvances
    /\ \E d \in ClockSteps : now' = now + d
    /\ advances' = advances + 1
    /\ UNCHANGED <<cache, cg_prev, cg_last, analyze_vars, truncate_vars,
                   report_vars, link_vars,
                   source_vars>>

\* One call cached_get(url, max_age); o is what urlopen would answer
CachedGet ==
    \E url \in CacheUrls, max_age \in {ONE_HOUR, ONE_DAY}, o \in CacheOutcomes :
        LET fn == cache_filename(url)
            cached == get_from_cache(cache, fn, max_age, now)
            r == get(o)
            call == [url |-> url, max_age |-> max_age, time |-> now,
                     before |-> cache[fn]]
        IN  /\ cg_prev' = IF cg_last = NoCall THEN NoCall
                          ELSE [state |-> cg_last.state,
                                url |-> cg_last.call.url,
                                time |-> cg_last.call.time,
                                fetches |-> cg_last.fetches,
                                body |-> cg_last.body]
            /\ IF cached.hit
               THEN /\ cache' = cache
                    /\ cg_last' = [state |-> "returned", call |-> call,
                                   fetches |-> 0, body |-> cached.body]
               ELSE IF r.exc # NoExc
               THEN /\ cache' = cache
                    /\ cg_last' = [state |-> "raised", call |-> call,
                                   fetches |-> 1, body |-> None]
               ELSE /\ cache' = [cache EXCEPT ![fn] =
                                    [exists |-> TRUE, body |-> r.body,
                                     mtime |-> now]]
                    /\ cg_last' = [state |-> "returned", call |-> call,
                                   fetches |-> 1, body |-> r.body]
            /\ UNCHANGED <<now, advances, analyze_vars, truncate_vars,
                           report_vars, link_vars,
                   source_vars>>

NextCache ==
    \/ Tick
    \/ CachedGet

SpecCache == InitCache /\ [][NextCache]_vars


\* The call found a cache entry for its url whose age is within max_age
CallFresh(c) ==
    /\ c.call.before.exists
    /\ c.call.time - c.call.before.mtime <= c.call.max_age

\* What C14 says of a call: a fresh entry is returned without a live fetch;
\* otherwise one live fetch is made and its result persisted under the url,
\* empty or not; and a call that follows such a fetching call for the same
\* url within the budget returns the same bytes with no live fetch
CachedGetObeys(c) ==
    /\ IF CallFresh(c)
       THEN /\ c.fetches = 0
            /\ c.body = c.call.before.body
       ELSE /\ c.fetches = 1
            /\ cache[cache_filename(c.call.url)] =
                  [exists |-> TRUE, body |-> c.body, mtime |-> c.call.time]
            /\ \A u \in CacheUrls :
                  u # c.call.url =>
                      cache_filename(u) # cache_filename(c.call.url)
    /\ (/\ cg_prev # NoCall
        /\ cg_prev.state = "returned"
        /\ cg_prev.fetches = 1
        /\ cg_prev.url = c.call.url
        /\ c.call.time - cg_prev.time <= c.call.max_age)
       => /\ c.fetches = 0
          /\ c.body = cg_prev.body

\* C14: cached_get(url, max_age) returns the cached bytes without a live
\* fetch when the entry of url exists and is within max_age; otherwise it
\* makes exactly one live fetch, persists the result under url even when it
\* is empty, and returns it, so that a call for the same url that follows
\* within the budget returns the same bytes with no live fetch.
C14_HitOrFetchPersistReturn ==
    cg_last # NoCall =>
        /\ cg_last.state = "returned"
        /\ CachedGetObeys(cg_last)


----------------------------------------------------------------------------
(* Failure.buildbot_source over lists of build steps. *)

MaxSourceSteps == 3

BuildStep(title, text) ==
    [title |-> title, link |-> None, css_class |-> "", text |-> text]

\* Steps whose text names a repository, a revision, both or neither
SourceStepPool == {
    BuildStep("git",
        <<"<pre>", "From git://github.com/", "zopefoundation/ZODB", "\n",
          "HEAD is now at ", "6b484f8", " ", "Fix", "\n", "</pre>">>),
    BuildStep("git",
        <<"<pre>", "From git://github.com/", "zopefoundation/ZODB.git", "\n",
          "fatal: unable to connect to github.com:", "\n", "</pre>">>),
    BuildStep("git",
        <<"<pre>", "HEAD is now at ", "0a1b2c3", " ", "Fix", "\n", "</pre>">>),
    BuildStep("git",
        <<"<pre>", "fatal: unable to connect to github.com:", "\n", "</pre>">>),
    BuildStep("test",
        <<"<pre>", "From git://github.com/", "zopefoundation/ZODB", "\n",
          "HEAD is now at ", "6b484f8", " ", "Fix", "\n", "</pre>">>) }

SourceStepLists == UNION {[1..n -> SourceStepPool] : n \in 0..MaxSourceSteps}

InitSource ==
    /\ FailureInit
    /\ TruncateNotCalled
    /\ MainNotStarted
    /\ CacheNotUsed
    /\ LinksNotCalled
    /\ bs_steps \in SourceStepLists
    /\ bs_result = [state |-> "idle"]

\* One call f.buildbot_source(steps)
BuildbotSource ==
    /\ bs_result.state = "idle"
    /\ bs_result' = [state |-> "returned", source |-> buildbot_source(bs_steps)]
    /\ UNCHANGED <<bs_steps, analyze_vars, truncate_vars, report_vars,
                   cache_vars, link_vars>>

NextSource == BuildbotSource

SpecSource == InitSource /\ [][NextSource]_vars

\* The loop extracts a repository, a revision, from this step
StepHasRepo(step) ==
    /\ step.title = "git"
    /\ SearchFrom(step.text, "From git://github.com/", RepoTokens, 1) # 0

StepHasCommit(step) ==
    /\ step.title = "git"
    /\ SearchFrom(step.text, "HEAD is now at ", CommitTokens, 1) # 0

\* C21: Failure.buildbot_source(steps) returns a GitHubSource only when a
\* repository and a revision were both extracted from the same step; when
\* the repository is found only in one step and the revision only in
\* another, or either is missing, it returns None.
C21_SourceOnlyFromOneStep ==
    (bs_result.state = "returned" /\ ~IsNone(bs_result.source)) =>
        \E i \in DOMAIN bs_steps :
            StepHasRepo(bs_steps[i]) /\ StepHasCommit(bs_steps[i])


----------------------------------------------------------------------------
(* Failure.analyze: what the marker 'last build successful' stands on. *)

\* The URL of the latest Provider-B build once its number is known
LatestJenkinsUrl ==
    rpartition(rpartition(Val(last_build_link), "/")[1], "/")[1]
        \o <<"/">> \o Val(last_build_number) \o <<"/">>

\* C22: after analyze completes, tag = 'last build successful' implies that
\* a latest build number was resolved, that it differs from the current
\* build number, and that data of that other build was fetched: a non-empty
\* list of latest steps for Provider A, each log fetched under the latest
\* build's number, the latest console text for Provider B.  A record whose
\* latest build is the build that failed is never tagged so.
C22_SuccessTagNeedsOtherBuild ==
    (pc \in {"done", "written"} /\ tag = Some("last build successful")) =>
        /\ ProviderA \/ ProviderB
        /\ ~IsNone(build_number)
        /\ ~IsNone(last_build_number)
        /\ isdigit(Val(last_build_number))
        /\ last_build_number # build_number
        /\ ProviderA =>
              /\ ~IsNone(last_build_steps)
              /\ Val(last_build_steps) # <<>>
              /\ \A i \in DOMAIN Val(last_build_steps) :
                    /\ startswith(Val(last_build_steps)[i].link,
                                  BuildsPrefix \o Val(last_build_number) \o <<"/">>)
                    /\ Fetch(Val(last_build_steps)[i].link, ONE_DAY) \in fetched
        /\ ProviderB =>
              /\ ~IsNone(last_console_text)
              /\ Val(last_console_text) # <<>>
              /\ LatestJenkinsUrl # Val(build_link)
              /\ Fetch(LatestJenkinsUrl \o <<"consoleText">>, ONE_DAY) \in fetched

\* C22 witness: a Provider-B record of build 5 whose latest build is 7, with
\* a console text that ends in the success marker, was tagged
C22_Witness ==
    /\ pc = "done"
    /\ ProviderB
    /\ tag = Some("last build successful")
    /\ build_number = Some(<<"5">>)
    /\ last_build_number = Some(<<"7">>)
    /\ Truthy(last_console_text)

====
